---- MODULE Spec2Model ----
(***************************************************************************)
(* State-machine model of src/main.py: the /handle_task endpoint, the two  *)
(* round handlers, push_code and the clients of the artifact repository,   *)
(* the generative service and the notification sink.                       *)
(*                                                                         *)
(* Scheduling.  handle_task is an `async def` served by one asyncio event  *)
(* loop.  A coroutine keeps the loop until it awaits; the only awaits are  *)
(* the asyncio.gather of round1_handler and the asyncio.to_thread of       *)
(* round2_handler.  Every other call (requests.get/post/put, sleep) is a   *)
(* plain blocking call made on the loop.  `loop` is the request whose      *)
(* coroutine holds the event loop (0: the loop is free).  The functions    *)
(* handed to asyncio.to_thread run on worker threads and step whatever the *)
(* loop is doing.                                                          *)
(*                                                                         *)
(* Requests are handled in NReq connection slots.  log[r] records every    *)
(* external operation made for the request in slot r, in order.            *)
(***************************************************************************)
EXTENDS Integers, Sequences, FiniteSets, TLC

NReq == 2
MaxArrivals == 2
MaxFiles == 2
PollAttempts == 24

Slots == 1..NReq

SECRET == "s3cret"
Secrets == {SECRET, "wrong"}
Tasks == {"demo"}
Nonces == {"n1", "n2"}
Rounds == {1, 2, 3}
Paths == {"LICENSE", "index.html"}
PathOrder == <<"LICENSE", "index.html">>
EXCLUDE_FILES == {"LICENSE", ".gitignore"}

SeqsUpTo(S, n) == UNION {[1..k -> S] : k \in 0..n}
FileLists == SeqsUpTo(Paths, MaxFiles)

reponame(task, nonce) == <<task, "-", nonce>>
RepoNames == {reponame(t, n) : t \in Tasks, n \in Nonces}

NoRepo == [exists |-> FALSE, files |-> [p \in Paths |-> 0], head |-> 0, pages |-> FALSE]
(* A request body.  evaluation_url is "unread" until handle_task looks at   *)
(* the field, which it does once, after the convergence loop (or at once   *)
(* for an invalid round); from then on it is "present" or "absent".        *)
NoReq == [secret |-> "", round |-> 0, task |-> "", nonce |-> "", evaluation_url |-> ""]
Requests == [secret : Secrets, round : Rounds, task : Tasks, nonce : Nonces,
             evaluation_url : {"unread"}]

NoPayload == [kind |-> "none", repo |-> <<>>, sha |-> 0]
ErrorPayload(msg) == [kind |-> msg, repo |-> <<>>, sha |-> 0]
Raised == [kind |-> "exception", repo |-> <<>>, sha |-> 0]

(* One external call and its answer.  repo is the repository name the call *)
(* was made for (<<>> for the generative service and the sink).            *)
(* rev is the revision an accepted write made (0 for any other call).       *)
Ent(op, path, st, val) ==
  [op |-> op, path |-> path, st |-> st, val |-> val, repo |-> <<>>, rev |-> 0]
On(name, e) == [e EXCEPT !.repo = name]
Made(rev, e) == [e EXCEPT !.rev = rev]

VARIABLES
  pc,        \* pc[r]: position of handle_task for the request in slot r
  data,      \* data[r]: the request body
  loop,      \* the slot whose coroutine holds the event loop, 0 when free
  llmT,      \* llmT[r]: state of the worker thread running llm_process
  llmOut,    \* llmOut[r]: file list returned by llm_process
  crT,       \* crT[r]: state of the worker thread running create_repo
  files,     \* files[r]: the file list push_code iterates over
  idx,       \* idx[r]: index of the file push_code is at
  sha,       \* sha[r]: file_sha of the current file (0: None)
  polls,     \* polls[r]: iterations of the convergence loop so far
  last_poll, \* last_poll[r]: outcome of the latest iteration of the convergence loop
  polled,    \* polled[r]: repository name in the URL of the latest convergence GET
  repush,    \* repush[r]: push_code got a list a complete push wrote to the repository before
  fresh,     \* fresh[r]: push_code got distinct paths, none in the repository yet
  existing,  \* existing[r]: existing_files fetched for the round 2 prompt
  payload,   \* payload[r]: what handle_task is about to return
  log,       \* log[r]: external operations of the request, in order
  repos,     \* repos[n]: the artifact repository named n
  pushed,    \* pushed[n]: file lists a complete push_code has written to n
  arrivals,  \* number of requests accepted so far
  gen,       \* the file list handed to the serializer, or held in the text's blocks
  prose,     \* the text outside the blocks: before, between and after them
  text,      \* the string given to extract_files_from_response
  out,       \* the list extract_files_from_response returned
  stage      \* where the text is: "off", "input", "context", "response", then "... parsed"

vars == <<pc, data, loop, llmT, llmOut, crT, files, idx, sha, polls, last_poll, polled, repush, fresh, existing, payload,
          log, repos, pushed, arrivals, gen, prose, text, out, stage>>
pvars == <<gen, prose, text, out, stage>>

HandlerInit ==
  /\ pc = [r \in Slots |-> "idle"]
  /\ data = [r \in Slots |-> NoReq]
  /\ loop = 0
  /\ llmT = [r \in Slots |-> "none"]
  /\ llmOut = [r \in Slots |-> <<>>]
  /\ crT = [r \in Slots |-> "none"]
  /\ files = [r \in Slots |-> <<>>]
  /\ idx = [r \in Slots |-> 0]
  /\ sha = [r \in Slots |-> 0]
  /\ polls = [r \in Slots |-> 0]
  /\ last_poll = [r \in Slots |-> "none"]
  /\ polled = [r \in Slots |-> <<>>]
  /\ repush = [r \in Slots |-> FALSE]
  /\ fresh = [r \in Slots |-> FALSE]
  /\ existing = [r \in Slots |-> <<>>]
  /\ payload = [r \in Slots |-> NoPayload]
  /\ log = [r \in Slots |-> <<>>]
  /\ repos = [n \in RepoNames |-> NoRepo]
  /\ pushed = [n \in RepoNames |-> {}]
  /\ arrivals = 0

Init ==
  /\ HandlerInit
  /\ gen = <<>> /\ prose = <<>> /\ text = <<>> /\ out = <<>> /\ stage = "off"

Repo(r) == reponame(data[r].task, data[r].nonce)
OnLoop(r) == loop \in {0, r}
Logged(r, e) == log' = [log EXCEPT ![r] = Append(@, e)]

validate_secret_always(secret) == TRUE
validate_secret(secret) == secret = SECRET

(* A request reaches the endpoint and, once the event loop is free, its    *)
(* handle_task runs up to its first await or blocking call.                *)
Dispatch(r) ==
  /\ pc[r] = "idle"
  /\ \A q \in Slots : q < r => pc[q] # "idle"
  /\ loop = 0
  /\ arrivals < MaxArrivals
  /\ arrivals' = arrivals + 1
  /\ \E d \in Requests :
       /\ data' = [data EXCEPT ![r] = d]
       /\ IF ~validate_secret(d.secret)
          THEN /\ payload' = [payload EXCEPT ![r] = ErrorPayload("Invalid secret")]
               /\ pc' = [pc EXCEPT ![r] = "done"]
               /\ loop' = r
               /\ UNCHANGED <<llmT, crT>>
          ELSE IF d.round = 1
          THEN /\ llmT' = [llmT EXCEPT ![r] = "submitted"]
               /\ crT' = [crT EXCEPT ![r] = "submitted"]
               /\ pc' = [pc EXCEPT ![r] = "r1_gather"]
               /\ loop' = 0
               /\ UNCHANGED payload
          ELSE IF d.round = 2
          THEN /\ pc' = [pc EXCEPT ![r] = "r2_fetch"]
               /\ loop' = r
               /\ UNCHANGED <<payload, llmT, crT>>
          ELSE /\ payload' = [payload EXCEPT ![r] = ErrorPayload("Invalid round")]
               /\ pc' = [pc EXCEPT ![r] = "notify"]
               /\ loop' = r
               /\ UNCHANGED <<llmT, crT>>
  /\ UNCHANGED <<llmOut, files, idx, sha, polls, last_poll, polled, repush, fresh, existing, log, repos, pushed, pvars>>

Abort_returns_result(r) ==
  /\ pc' = [pc EXCEPT ![r] = "done"]
  /\ payload' = [payload EXCEPT ![r] = [kind |-> "TaskResult", repo |-> Repo(r), sha |-> 0]]
  /\ loop' = r

(* An exception leaves handle_task: the server answers 500 Internal Server *)
(* Error; nothing after the raising statement runs.                        *)
Abort(r) ==
  /\ pc' = [pc EXCEPT ![r] = "done"]
  /\ payload' = [payload EXCEPT ![r] = Raised]
  /\ loop' = r

Distinct(fs) == \A i, j \in DOMAIN fs : fs[i] = fs[j] => i = j

PushNext_empty_skips_enable(r, fs, i) ==
  IF i <= Len(fs) THEN "probe"
  ELSE IF data[r].round = 1 /\ fs # <<>> THEN "enable" ELSE "latest"

(* Where the handler is after file i - 1 of fs: at the next file of the    *)
(* loop of push_code, or past push_code (an empty fs: at once).            *)
PushNext(r, fs, i) ==
  IF i <= Len(fs) THEN "probe"
  ELSE IF data[r].round = 1 THEN "enable" ELSE "latest"

(* The handler gets its file list and enters push_code, a plain call. *)
StartPush(r, fs) ==
  /\ files' = [files EXCEPT ![r] = fs]
  /\ idx' = [idx EXCEPT ![r] = 1]
  /\ pc' = [pc EXCEPT ![r] = PushNext(r, fs, 1)]
  /\ loop' = r
  /\ repush' = [repush EXCEPT ![r] = fs \in pushed[Repo(r)]]
  /\ fresh' = [fresh EXCEPT ![r] = Distinct(fs) /\ \A i \in DOMAIN fs : repos[Repo(r)].files[fs[i]] = 0]
  /\ UNCHANGED payload

llm_process(st, parsed) == IF st = 200 THEN parsed ELSE <<>>

(* Worker thread: llm_process.  It raises only while building the prompt   *)
(* (an element of data['attachments'] that is no dict), before any call;   *)
(* from the POST on, every failure is caught and becomes [].  st = 500     *)
(* stands for any failed call (non-200 or a transport exception).          *)
LlmCall(r) ==
  /\ llmT[r] = "submitted"
  /\ \/ /\ llmT' = [llmT EXCEPT ![r] = "raised"]
        /\ UNCHANGED <<llmOut, log>>
     \/ \E st \in {200, 500}, parsed \in FileLists :
          /\ st # 200 => parsed = <<>>
          /\ llmOut' = [llmOut EXCEPT ![r] = llm_process(st, parsed)]
          /\ llmT' = [llmT EXCEPT ![r] = "done"]
          /\ Logged(r, Ent("llm", "", st, Len(parsed)))
  /\ UNCHANGED <<pc, data, loop, crT, files, idx, sha, polls, last_poll, polled, repush, fresh, existing, payload,
                 repos, pushed, arrivals, pvars>>

NewRepo == [exists |-> TRUE,
            files |-> [p \in Paths |-> IF p = "LICENSE" THEN 1 ELSE 0],
            head |-> 1, pages |-> FALSE]

create_repo_ok_any(st) == TRUE
create_repo_ok(st) == st = 201

(* Worker thread: create_repo.  201 creates the repository with the MIT    *)
(* licence file as its first commit; 422: the name is taken; 500: any      *)
(* other failure (a transport exception raises the same way).              *)
CreateCall(r) ==
  /\ crT[r] = "submitted"
  /\ \E st \in {201, 422, 500} :
       /\ st = 201 => ~repos[Repo(r)].exists
       /\ st = 422 => repos[Repo(r)].exists
       /\ repos' = IF st = 201 THEN [repos EXCEPT ![Repo(r)] = NewRepo] ELSE repos
       /\ crT' = [crT EXCEPT ![r] = IF create_repo_ok(st) THEN "done" ELSE "raised"]
       /\ Logged(r, On(Repo(r), Ent("create", "", st, 0)))
  /\ UNCHANGED <<pc, data, loop, llmT, llmOut, files, idx, sha, polls, last_poll, polled, repush, fresh, existing,
                 payload, pushed, arrivals, pvars>>

gather_raises(l, c) == l = "raised" \/ c = "raised"
gather_returns_early(l, c) == l = "done"
gather_returns(l, c) == l = "done" /\ c = "done"

(* round1_handler resumes from `await asyncio.gather(...)`: with the first *)
(* exception of either thread, else with both results.                     *)
Gather(r) ==
  /\ pc[r] = "r1_gather"
  /\ OnLoop(r)
  /\ \/ /\ gather_raises(llmT[r], crT[r])
        /\ Abort(r)
        /\ UNCHANGED <<files, idx, repush, fresh>>
     \/ /\ ~gather_raises(llmT[r], crT[r])
        /\ gather_returns(llmT[r], crT[r])
        /\ StartPush(r, llmOut[r])
  /\ UNCHANGED <<data, llmT, llmOut, crT, sha, polls, last_poll, polled, existing, log, repos, pushed,
                 arrivals, pvars>>

RECURSIVE FetchFrom(_, _, _, _)
(* The downloads of fetch_repo_files, in listing order from entry i on: one *)
(* GET per listed file outside EXCLUDE_FILES; an exception (st = 0) ends    *)
(* the loop.                                                                *)
FetchFrom(name, i, present, rs) ==
  IF i > Len(PathOrder) THEN <<>>
  ELSE IF PathOrder[i] \notin present \/ PathOrder[i] \in EXCLUDE_FILES
       THEN FetchFrom(name, i + 1, present, rs)
  ELSE IF rs[PathOrder[i]] = 0 THEN <<On(name, Ent("read", PathOrder[i], 0, 0))>>
  ELSE <<On(name, Ent("read", PathOrder[i], rs[PathOrder[i]], 0))>>
         \o FetchFrom(name, i + 1, present, rs)

fetch_repo_files(lst, reads) ==
  IF lst = 200
  THEN LET got == SelectSeq(reads, LAMBDA e : e.st = 200)
       IN [i \in 1..Len(got) |-> got[i].path]
  ELSE <<>>

(* round2_handler up to `await asyncio.to_thread(llm_process)`: the listing *)
(* and the downloads are blocking calls on the loop.                        *)
Fetch(r) ==
  /\ pc[r] = "r2_fetch"
  /\ loop = r
  /\ \E lst \in {200, 404, 500, 0}, rs \in [Paths -> {200, 500, 0}] :
       /\ lst = 200 => repos[Repo(r)].exists
       /\ lst = 404 => ~repos[Repo(r)].exists
       /\ LET present == {p \in Paths : repos[Repo(r)].files[p] # 0}
              reads == IF lst = 200 THEN FetchFrom(Repo(r), 1, present, rs) ELSE <<>>
          IN /\ log' = [log EXCEPT ![r] = (@ \o <<On(Repo(r), Ent("list", "", lst, 0))>>) \o reads]
             /\ existing' = [existing EXCEPT ![r] = fetch_repo_files(lst, reads)]
  /\ llmT' = [llmT EXCEPT ![r] = "submitted"]
  /\ pc' = [pc EXCEPT ![r] = "r2_await"]
  /\ loop' = 0
  /\ UNCHANGED <<data, llmOut, crT, files, idx, sha, polls, last_poll, polled, repush, fresh, payload, repos, pushed,
                 arrivals, pvars>>

round2_accepts_empty(fs) == FALSE
round2_no_files(fs) == fs = <<>>

(* round2_handler resumes with the result of llm_process. *)
LlmResume(r) ==
  /\ pc[r] = "r2_await"
  /\ OnLoop(r)
  /\ llmT[r] \in {"done", "raised"}
  /\ IF llmT[r] = "raised" \/ round2_no_files(llmOut[r])
     THEN Abort(r) /\ UNCHANGED <<files, idx, repush, fresh>>
     ELSE StartPush(r, llmOut[r])
  /\ UNCHANGED <<data, llmT, llmOut, crT, sha, polls, last_poll, polled, existing, log, repos, pushed,
                 arrivals, pvars>>

offloaded_call(r) == 0
(* Who holds the event loop after a plain blocking call made by the        *)
(* coroutine of r: still r, nothing was awaited.                           *)
blocking_call(r) == r

after_push_awaited(r) == 0
(* Who holds the event loop when push_code returns to its handler:         *)
(* push_code(reponame, files, round) is a plain call, the handler goes     *)
(* straight on to its next statement.                                      *)
after_push(r) == r

get_file_sha(st, tok) == IF st = 200 THEN tok ELSE 0

(* push_code, first half of an iteration: get_file_sha.  200 carries the   *)
(* file's token, 404 says the file (or the repository) is absent, 500 is   *)
(* any other status (rate limit, server error), st = 0 a transport         *)
(* exception, which get_file_sha re-raises.  500 is let answer only probes *)
(* of files that exist: for an absent file the code takes it for the 404   *)
(* it would have got.                                                      *)
Probe(r) ==
  /\ pc[r] = "probe"
  /\ OnLoop(r)
  /\ LET p == files[r][idx[r]]
         tok == repos[Repo(r)].files[p]
     IN \E st \in {200, 404, 500, 0} :
          /\ st \in {200, 500} => tok # 0
          /\ st = 404 => tok = 0
          /\ Logged(r, On(Repo(r), Ent("probe", p, st, get_file_sha(st, tok))))
          /\ IF st = 0
             THEN Abort(r) /\ UNCHANGED sha
             ELSE /\ sha' = [sha EXCEPT ![r] = get_file_sha(st, tok)]
                  /\ pc' = [pc EXCEPT ![r] = "write"]
                  /\ loop' = blocking_call(r)
                  /\ UNCHANGED payload
  /\ UNCHANGED <<data, llmT, llmOut, crT, files, idx, polls, last_poll, polled, repush, fresh, existing, repos, pushed,
                 arrivals, pvars>>

(* The repository's answer to PUT contents/path carrying token `sent`      *)
(* (0: none): 404 no such repository, 201 created, 200 updated, 422 the    *)
(* file exists and no token came, 409 the token is not the current one.    *)
WriteStatus(repo, p, sent) ==
  IF ~repo.exists THEN 404
  ELSE IF repo.files[p] = 0 THEN (IF sent = 0 THEN 201 ELSE 409)
  ELSE IF sent = 0 THEN 422
  ELSE IF sent = repo.files[p] THEN 200 ELSE 409

push_ok_any(st) == TRUE
push_ok(st) == st \in {200, 201}

(* push_code, second half of an iteration: the PUT.  An accepted write is  *)
(* a new commit; the file's token becomes that of the new revision.        *)
Write(r) ==
  /\ pc[r] = "write"
  /\ OnLoop(r)
  /\ LET p == files[r][idx[r]]
         n == Repo(r)
     IN \E st \in {WriteStatus(repos[n], p, sha[r]), 500} :
          /\ Logged(r, Made(IF st \in {200, 201} THEN repos[n].head + 1 ELSE 0,
                            On(n, Ent("write", p, st, sha[r]))))
          /\ repos' = IF st \in {200, 201}
                      THEN [repos EXCEPT ![n].head = @ + 1,
                                         ![n].files[p] = repos[n].head + 1]
                      ELSE repos
          /\ IF push_ok(st)
             THEN /\ idx' = [idx EXCEPT ![r] = @ + 1]
                  /\ pc' = [pc EXCEPT ![r] = PushNext(r, files[r], idx[r] + 1)]
                  /\ loop' = IF idx[r] = Len(files[r]) THEN after_push(r) ELSE blocking_call(r)
                  /\ pushed' = IF idx[r] = Len(files[r])
                               THEN [pushed EXCEPT ![n] = @ \cup {files[r]}]
                               ELSE pushed
                  /\ UNCHANGED payload
             ELSE Abort(r) /\ UNCHANGED <<idx, pushed>>
  /\ UNCHANGED <<data, llmT, llmOut, crT, files, sha, polls, last_poll, polled, repush, fresh, existing, arrivals, pvars>>

enable_pages_ok_any(st) == TRUE
enable_pages_ok(st) == st = 201

(* enable_pages: 201 enabled, 409 already enabled, 404 no repository.      *)
Enable(r) ==
  /\ pc[r] = "enable"
  /\ OnLoop(r)
  /\ LET n == Repo(r)
     IN \E st \in {201, 409, 404, 500} :
          /\ st = 201 => repos[n].exists /\ ~repos[n].pages
          /\ st = 409 => repos[n].exists /\ repos[n].pages
          /\ st = 404 => ~repos[n].exists
          /\ Logged(r, On(n, Ent("enable", "", st, 0)))
          /\ repos' = IF st = 201 THEN [repos EXCEPT ![n].pages = TRUE] ELSE repos
          /\ IF enable_pages_ok(st)
             THEN /\ pc' = [pc EXCEPT ![r] = "latest"]
                  /\ loop' = r
                  /\ UNCHANGED payload
             ELSE Abort(r)
  /\ UNCHANGED <<data, llmT, llmOut, crT, files, idx, sha, polls, last_poll, polled, repush, fresh, existing, pushed,
                 arrivals, pvars>>

TaskResult_task_only(r, s) == [kind |-> "TaskResult", repo |-> <<data[r].task>>, sha |-> s]
(* The handler's response_payload: repo_url and pages_url end in reponame, *)
(* commit_sha is the revision just read.                                   *)
TaskResult(r, s) == [kind |-> "TaskResult", repo |-> Repo(r), sha |-> s]

get_sha_latest_commit_ok(st) == st = 200

(* get_sha_latest_commit, then the handler builds its result.              *)
Latest(r) ==
  /\ pc[r] = "latest"
  /\ OnLoop(r)
  /\ LET n == Repo(r)
     IN \E st \in {200, 404, 500} :
          /\ st = 200 => repos[n].exists
          /\ st = 404 => ~repos[n].exists
          /\ Logged(r, On(n, Ent("latest", "", st, IF st = 200 THEN repos[n].head ELSE 0)))
          /\ IF get_sha_latest_commit_ok(st)
             THEN /\ payload' = [payload EXCEPT ![r] = TaskResult(r, repos[n].head)]
                  /\ pc' = [pc EXCEPT ![r] = "poll"]
                  /\ loop' = r
             ELSE Abort(r)
  /\ UNCHANGED <<data, llmT, llmOut, crT, files, idx, sha, polls, last_poll, polled, repush, fresh, existing, repos,
                 pushed, arrivals, pvars>>

pages_live(st) == st = 200
build_deployed(status, commit, expected) == status = "built" /\ commit = expected

poll_continues_no_break(n, hit) == n < PollAttempts
(* `for _ in range(24)` with `break`: another iteration follows iteration n *)
poll_continues(n, hit) == ~hit /\ n < PollAttempts

poll_exit_fatal(hit) == IF hit THEN "notify" ELSE "abort"
(* Where handle_task goes when the loop ends, by break or by exhaustion.    *)
poll_exit(hit) == "notify"

poll_target_task_only(r) == <<data[r].task>>
(* The repository the convergence GET is about: round 1 requests the       *)
(* pages_url of the payload, round 2 builds the builds/latest URL from     *)
(* data['task'] and data['nonce'].                                         *)
poll_target(r) ==
  IF data[r].round = 1 THEN payload[r].repo ELSE reponame(data[r].task, data[r].nonce)

poll_raises_caught(st) == FALSE
(* The GET of the convergence loop (or response.json() on its body) raised: *)
(* the loop has no try/except, the exception leaves handle_task.            *)
poll_raises(st) == st = 0

(* One iteration of the convergence loop of handle_task.  Round 1: GET of  *)
(* pages_url (200, 404 not yet live).  Round 2: GET of pages/builds/latest; *)
(* its body gives status and commit (404: neither is there).  st = 0: the   *)
(* GET raises (timeout, connection error) or its body is no JSON.           *)
Poll(r) ==
  /\ pc[r] = "poll"
  /\ OnLoop(r)
  /\ \E st \in {200, 404, 0}, status \in {"", "built", "building"},
        commit \in {0, payload[r].sha} :
       /\ (data[r].round = 1 \/ st # 200) => status = "" /\ commit = 0
       /\ (data[r].round = 2 /\ st = 200) => status # ""
       /\ LET hit == IF data[r].round = 1 THEN pages_live(st)
                     ELSE build_deployed(status, commit, payload[r].sha)
              next == IF poll_raises(st) THEN "abort"
                      ELSE IF poll_continues(polls[r] + 1, hit) THEN "poll"
                      ELSE poll_exit(hit)
          IN /\ polls' = [polls EXCEPT ![r] = @ + 1]
             /\ polled' = [polled EXCEPT ![r] = poll_target(r)]
             /\ last_poll' = [last_poll EXCEPT ![r] =
                               IF st = 0 THEN "raised" ELSE IF hit THEN "true" ELSE "false"]
             /\ IF next = "abort"
                THEN Abort(r)
                ELSE /\ pc' = [pc EXCEPT ![r] = next]
                     /\ loop' = r
                     /\ UNCHANGED payload
  /\ UNCHANGED <<data, llmT, llmOut, crT, files, idx, sha, repush, fresh, existing, log,
                 repos, pushed, arrivals, pvars>>

notify_outcome_fatal(st, p) == IF st = 0 THEN Raised ELSE p
(* What handle_task returns after the POST answered st (0: it raised): the *)
(* `except Exception` prints and falls through to `return payload`.        *)
notify_outcome(st, p) == p

(* The POST to evaluation_url, when there is one, and the return.  The     *)
(* status of the answer is not looked at; an exception (st = 0) is caught. *)
Notify(r) ==
  /\ pc[r] = "notify"
  /\ OnLoop(r)
  /\ \E url \in {"present", "absent"} :
       /\ data' = [data EXCEPT ![r].evaluation_url = url]
       /\ IF url = "present"
          THEN \E st \in {200, 0} :
                 /\ Logged(r, Ent("notify", payload[r].kind, st, payload[r].sha))
                 /\ payload' = [payload EXCEPT ![r] = notify_outcome(st, @)]
          ELSE UNCHANGED <<log, payload>>
  /\ pc' = [pc EXCEPT ![r] = "done"]
  /\ loop' = r
  /\ polls' = [polls EXCEPT ![r] = 0]
  /\ UNCHANGED <<llmT, llmOut, crT, files, idx, sha, last_poll, polled, repush, fresh, existing,
                 repos, pushed, arrivals, pvars>>

Pending(r) == llmT[r] = "submitted" \/ crT[r] = "submitted"

(* The response has left: the coroutine is over and the loop is free.  A   *)
(* worker thread the handler no longer waits for keeps running.            *)
Close(r) ==
  /\ pc[r] = "done"
  /\ loop' = IF loop = r THEN 0 ELSE loop
  /\ files' = [files EXCEPT ![r] = <<>>]
  /\ idx' = [idx EXCEPT ![r] = 0]
  /\ sha' = [sha EXCEPT ![r] = 0]
  /\ polls' = [polls EXCEPT ![r] = 0]
  /\ last_poll' = [last_poll EXCEPT ![r] = "none"]
  /\ polled' = [polled EXCEPT ![r] = <<>>]
  /\ repush' = [repush EXCEPT ![r] = FALSE]
  /\ fresh' = [fresh EXCEPT ![r] = FALSE]
  /\ existing' = [existing EXCEPT ![r] = <<>>]
  /\ payload' = [payload EXCEPT ![r] = NoPayload]
  /\ log' = [log EXCEPT ![r] = <<>>]
  /\ IF Pending(r)
     THEN /\ pc' = [pc EXCEPT ![r] = "orphan"]
          /\ UNCHANGED <<data, llmT, llmOut, crT>>
     ELSE /\ pc' = [pc EXCEPT ![r] = "idle"]
          /\ data' = [data EXCEPT ![r] = NoReq]
          /\ llmT' = [llmT EXCEPT ![r] = "none"]
          /\ llmOut' = [llmOut EXCEPT ![r] = <<>>]
          /\ crT' = [crT EXCEPT ![r] = "none"]
  /\ UNCHANGED <<repos, pushed, arrivals, pvars>>

(* The last worker thread of a finished request has ended.                 *)
Reap(r) ==
  /\ pc[r] = "orphan"
  /\ ~Pending(r)
  /\ pc' = [pc EXCEPT ![r] = "idle"]
  /\ data' = [data EXCEPT ![r] = NoReq]
  /\ llmT' = [llmT EXCEPT ![r] = "none"]
  /\ llmOut' = [llmOut EXCEPT ![r] = <<>>]
  /\ crT' = [crT EXCEPT ![r] = "none"]
  /\ log' = [log EXCEPT ![r] = <<>>]
  /\ UNCHANGED <<loop, files, idx, sha, polls, last_poll, polled, repush, fresh, existing, payload, repos, pushed,
                 arrivals, pvars>>

Next ==
  \E r \in Slots :
    \/ Dispatch(r)
    \/ LlmCall(r)
    \/ CreateCall(r)
    \/ Gather(r)
    \/ Fetch(r)
    \/ LlmResume(r)
    \/ Probe(r)
    \/ Write(r)
    \/ Enable(r)
    \/ Latest(r)
    \/ Poll(r)
    \/ Notify(r)
    \/ Close(r)
    \/ Reap(r)

Spec == Init /\ [][Next]_vars

(***************************************************************************)
(* extract_files_from_response and the context serialization of            *)
(* round2_handler, on strings of characters.  A string is a sequence of    *)
(* the characters below; "E" stands for the word END_FILE as the pattern   *)
(* spells it and "e" for the same word in another letter case (end_file),  *)
(* which re.IGNORECASE lets match too.                                     *)
(***************************************************************************)
MaxStr == 2
MaxBlocks == 2

WS == {" ", "\n"}
END_FILE == {"E", "e"}

StrsUpTo(S, n) == UNION {[1..k -> S] : k \in 0..n}

RECURSIVE lstrip(_)
lstrip(str) == IF str # <<>> /\ Head(str) \in WS THEN lstrip(Tail(str)) ELSE str
RECURSIVE rstrip(_)
rstrip(str) ==
  IF str # <<>> /\ str[Len(str)] \in WS THEN rstrip(SubSeq(str, 1, Len(str) - 1)) ELSE str
(* str.strip() *)
strip(str) == rstrip(lstrip(str))

(* r"\n<<END_FILE>>" matches at position e of t *)
EndAt(t, e) ==
  /\ e + 5 <= Len(t)
  /\ t[e] = "\n" /\ t[e + 1] = "<" /\ t[e + 2] = "<"
  /\ t[e + 3] \in END_FILE
  /\ t[e + 4] = ">" /\ t[e + 5] = ">"

Least(S) == CHOOSE x \in S : \A y \in S : x <= y
Greatest(S) == CHOOSE x \in S : \A y \in S : x >= y

NoMatch == [ok |-> FALSE, filename |-> <<>>, content |-> <<>>, next |-> 0]

(* The pattern tried at position s of t.  "<<", then [^>]+ : the run of    *)
(* characters up to the next ">", at least one, which ">>" must follow;    *)
(* \s*\n : greedy, so the line feed is the last one of the white space     *)
(* that follows for which the rest still matches; (.*?) : lazy, up to the  *)
(* first "\n<<END_FILE>>" from there on.                                   *)
pattern(t, s) ==
  LET gts == {k \in (s + 2)..Len(t) : t[k] = ">"}
      k == IF gts = {} THEN Len(t) + 1 ELSE Least(gts)
      header == /\ s + 1 <= Len(t) /\ t[s] = "<" /\ t[s + 1] = "<"
                /\ k > s + 2
                /\ k + 1 <= Len(t) /\ t[k] = ">" /\ t[k + 1] = ">"
      nonws == {j \in (k + 2)..Len(t) : t[j] \notin WS}
      wsEnd == IF nonws = {} THEN Len(t) + 1 ELSE Least(nonws)
      ends(n) == {e \in (n + 1)..Len(t) : EndAt(t, e)}
      good == {n \in (k + 2)..(wsEnd - 1) : t[n] = "\n" /\ ends(n) # {}}
  IN IF header /\ good # {}
     THEN LET n == Greatest(good)
              e == Least(ends(n))
          IN [ok |-> TRUE, filename |-> SubSeq(t, s + 2, k - 1),
              content |-> SubSeq(t, n + 1, e - 1), next |-> e + 6]
     ELSE NoMatch

RECURSIVE findall_first(_, _)
findall_first(t, i) ==
  IF i > Len(t) THEN <<>>
  ELSE LET m == pattern(t, i)
       IN IF m.ok THEN <<m>> ELSE findall_first(t, i + 1)

RECURSIVE findall(_, _)
(* pattern.findall: leftmost matches, one after the end of the other *)
findall(t, i) ==
  IF i > Len(t) THEN <<>>
  ELSE LET m == pattern(t, i)
       IN IF m.ok THEN <<m>> \o findall(t, m.next) ELSE findall(t, i + 1)

File(filename, content) == [filename |-> filename, content |-> content]

RECURSIVE file_list(_)
(* the loop over the matches: strip both, skip a match left with an empty  *)
(* name or an empty content                                                *)
file_list(matches) ==
  IF matches = <<>> THEN <<>>
  ELSE LET cleaned_filename == strip(Head(matches).filename)
           cleaned_content == strip(Head(matches).content)
       IN IF cleaned_content = <<>> \/ cleaned_filename = <<>>
          THEN file_list(Tail(matches))
          ELSE <<File(cleaned_filename, cleaned_content)>> \o file_list(Tail(matches))

extract_files_from_response(response_content) == file_list(findall(response_content, 1))

(* f"<<{file['filename']}>>\n{file['content']}\n<<END_FILE>>" *)
block(file) ==
  <<"<", "<">> \o file.filename \o <<">", ">", "\n">> \o file.content
    \o <<"\n", "<", "<", "E", ">", ">">>

RECURSIVE context_blocks(_)
context_blocks(fs) ==
  IF fs = <<>> THEN <<>> ELSE (block(Head(fs)) \o <<"\n">>) \o context_blocks(Tail(fs))

(* context_block of round2_handler: a heading line, one block and a line   *)
(* feed per file, a closing line ("-" for the words of the two lines).     *)
context_block(fs) == (<<"\n", "-", "\n">> \o context_blocks(fs)) \o <<"-", "\n">>

RECURSIVE interleave(_, _)
(* A response of the generative service: the blocks of fs with the lines   *)
(* of prose ps around them, ps[1] before the first block, ps[i + 1] after  *)
(* the i-th.                                                               *)
interleave(ps, fs) ==
  IF fs = <<>> THEN Head(ps)
  ELSE (Head(ps) \o block(Head(fs))) \o (<<"\n">> \o interleave(Tail(ps), Tail(fs)))

PathStrs == StrsUpTo({"a", ">", " "}, MaxStr)
ContentStrs ==
  StrsUpTo({"a", " ", "\n"}, MaxStr)
    \cup {<<"a", "\n", "<", "<", "e", ">", ">">>, <<"<", "<", "a", ">", ">", "\n", "a">>}
GenFiles == {File(f, c) : f \in PathStrs, c \in ContentStrs}

(* Lines of prose: none, words, words with a "<<" in them. *)
ProseLines == {<<>>, <<"a", "\n">>, <<"a", " ", "<", "<", " ", "a", "\n">>}
BlockFiles == {File(<<"a">>, <<"a">>), File(<<"a", "a">>, <<"a", "\n", "a">>)}
BlockLists == SeqsUpTo(BlockFiles, MaxBlocks)

(* The lists to serialize: any one file of GenFiles at any place among     *)
(* files of BlockFiles.                                                    *)
GenLists ==
  {<<>>} \cup UNION {{[i \in 1..n |-> IF i = k THEN f ELSE others[i]] :
                        f \in GenFiles, k \in 1..n, others \in [1..n -> BlockFiles]} :
                      n \in 1..MaxBlocks}

hvars == <<pc, data, loop, llmT, llmOut, crT, files, idx, sha, polls, last_poll, polled, repush,
           fresh, existing, payload, log, repos, pushed, arrivals>>

ParserInit ==
  /\ HandlerInit
  /\ \/ gen \in GenLists /\ prose = <<>>
     \/ gen \in BlockLists /\ prose \in [1..(Len(gen) + 1) -> ProseLines]
  /\ text = <<>> /\ out = <<>> /\ stage = "input"

(* round2_handler builds the context of the files it fetched. *)
SerializeContext ==
  /\ stage = "input" /\ prose = <<>>
  /\ text' = context_block(gen)
  /\ stage' = "context"
  /\ UNCHANGED <<gen, prose, out, hvars>>

(* The generative service answers with blocks and prose. *)
Respond ==
  /\ stage = "input" /\ prose # <<>>
  /\ text' = interleave(prose, gen)
  /\ stage' = "response"
  /\ UNCHANGED <<gen, prose, out, hvars>>

Parse ==
  /\ stage \in {"context", "response"}
  /\ out' = extract_files_from_response(text)
  /\ stage' = IF stage = "context" THEN "context parsed" ELSE "response parsed"
  /\ UNCHANGED <<gen, prose, text, hvars>>

ParserNext == SerializeContext \/ Respond \/ Parse

ParserSpec == ParserInit /\ [][ParserNext]_vars

(***************************************************************************)
(* Properties.                                                             *)
(***************************************************************************)
Has(r, ops) == \E i \in DOMAIN log[r] : log[r][i].op \in ops
Publishing == {"probe", "write", "enable", "latest"}

(* C1: a request whose secret differs from the configured secret is        *)
(* answered {"error": "Invalid secret"} and nothing external is done for   *)
(* it: no worker thread is started (no generation call, no repository      *)
(* creation), no repository read, probe or write, no hosting enablement,   *)
(* no convergence poll, no notification POST.                              *)
C1_InvalidSecretNoSideEffect ==
  \A r \in Slots :
    (pc[r] # "idle" /\ data[r].secret # SECRET) =>
      /\ pc[r] = "done"
      /\ payload[r] = ErrorPayload("Invalid secret")
      /\ log[r] = <<>>
      /\ llmT[r] = "none" /\ crT[r] = "none"
      /\ polls[r] = 0 /\ last_poll[r] = "none"

C1_Witness == \E r \in Slots : pc[r] = "done" /\ data[r].secret = "wrong"

EmptyGeneration(r) == data[r].round = 2 /\ llmT[r] = "done" /\ llmOut[r] = <<>>

(* C2: in round 2, once llm_process has returned an empty list (the        *)
(* service failed, or its text held no block), the handler ends by an      *)
(* exception and the request makes no probe, no write and nothing after:   *)
(* it leaves the repository's files as they were.                          *)
C2_Round2EmptyIsFatal ==
  \A r \in Slots :
    EmptyGeneration(r) =>
      /\ pc[r] \in {"r2_await", "done"}
      /\ pc[r] = "done" => payload[r] = Raised
      /\ ~Has(r, Publishing \cup {"notify"})
      /\ files[r] = <<>>
      /\ polls[r] = 0

C2_Witness ==
  \E r \in Slots :
    /\ EmptyGeneration(r)
    /\ pc[r] = "done"
    /\ payload[r] = Raised
    /\ repos[Repo(r)].exists
    /\ log[r][Len(log[r])].op = "llm" /\ log[r][Len(log[r])].st = 500

(* C3: in round 1 both worker threads (llm_process, create_repo) are       *)
(* started for every request, and push_code, enable_pages and              *)
(* get_sha_latest_commit run only after both have returned, create_repo    *)
(* with 201; when create_repo raises, none of them ever runs.              *)
C3_Round1PublishAfterBoth ==
  \A r \in Slots :
    (data[r].round = 1 /\ data[r].secret = SECRET) =>
      /\ llmT[r] # "none" /\ crT[r] # "none"
      /\ \A i \in DOMAIN log[r] :
           log[r][i].op \in Publishing =>
             /\ \E j \in 1..(i - 1) : log[r][j].op = "create" /\ log[r][j].st = 201
             /\ \E j \in 1..(i - 1) : log[r][j].op = "llm"
      /\ pc[r] \in {"probe", "write", "enable", "latest", "poll", "notify"} =>
           llmT[r] = "done" /\ crT[r] = "done"
      /\ crT[r] = "raised" =>
           /\ ~Has(r, Publishing)
           /\ pc[r] \in {"r1_gather", "done", "orphan"}

C3_Witness ==
  \E r \in Slots :
    /\ data[r].round = 1
    /\ crT[r] = "raised"
    /\ llmT[r] = "done" /\ Len(llmOut[r]) > 0
    /\ pc[r] = "done"
    /\ log[r][Len(log[r])].op = "llm"

(* A repository call of the workflow that the service refused.             *)
Refused(e) ==
  \/ e.op = "create" /\ e.st # 201
  \/ e.op = "write" /\ e.st \notin {200, 201}
  \/ e.op = "enable" /\ e.st # 201
  \/ e.op = "latest" /\ e.st # 200

WorkflowFailed(r) ==
  \/ \E i \in DOMAIN log[r] : Refused(log[r][i])
  \/ EmptyGeneration(r)

IsErrorBody(kind) == kind \notin {"none", "exception", "TaskResult"}

(* C4: when a round's workflow fails (repository creation, a file write,   *)
(* hosting enablement, reading the revision, round 2's empty generation),  *)
(* the caller gets {"error": message} or the notification sink does.       *)
C4_AbortReportsError ==
  \A r \in Slots :
    (pc[r] = "done" /\ WorkflowFailed(r)) =>
      \/ IsErrorBody(payload[r].kind)
      \/ \E i \in DOMAIN log[r] :
           log[r][i].op = "notify" /\ IsErrorBody(log[r][i].path)

(* C5: an aborted round emits no TaskResult.  After a refused repository   *)
(* call, or a probe or poll that raised, the handler does nothing more     *)
(* (only the other worker thread of round 1 may still make its call), the  *)
(* caller gets no TaskResult and nothing is posted to evaluation_url.      *)
C5_AbortedRoundEmitsNothing ==
  \A r \in Slots :
    /\ \A i \in DOMAIN log[r] :
         (Refused(log[r][i]) \/ (log[r][i].op = "probe" /\ log[r][i].st = 0)) =>
           /\ \A j \in (i + 1)..Len(log[r]) : log[r][j].op \in {"llm", "create"}
           /\ payload[r].kind # "TaskResult"
           /\ polls[r] = 0
           /\ pc[r] \in {"r1_gather", "done", "orphan"}
    /\ last_poll[r] = "raised" => pc[r] = "done" /\ payload[r] = Raised
    /\ payload[r] = Raised => pc[r] = "done" /\ ~Has(r, {"notify"})

C5_Witness ==
  \E r \in Slots :
    /\ pc[r] = "done"
    /\ payload[r] = Raised
    /\ Len(log[r]) > 2
    /\ log[r][Len(log[r])].op = "write" /\ log[r][Len(log[r])].st = 500
    /\ \E j \in DOMAIN log[r] : log[r][j].op = "write" /\ log[r][j].st \in {200, 201}

NotifyEntries(r) == {i \in DOMAIN log[r] : log[r][i].op = "notify"}

(* C6: when the convergence loop of round 1 or round 2 uses up its         *)
(* attempts without its predicate becoming true, the task is not failed:   *)
(* handle_task goes on to return the round's TaskResult and, when          *)
(* evaluation_url is present, posts that TaskResult to it.                 *)
C6_ConvergenceTimeoutNotFatal ==
  \A r \in Slots :
    (data[r].round \in {1, 2} /\ last_poll[r] = "false" /\ pc[r] # "poll") =>
      /\ pc[r] \in {"notify", "done"}
      /\ payload[r] = TaskResult(r, payload[r].sha)
      /\ pc[r] = "notify" => polls[r] = PollAttempts
      /\ (pc[r] = "done" /\ data[r].evaluation_url = "present") =>
           /\ Cardinality(NotifyEntries(r)) = 1
           /\ log[r][Len(log[r])].op = "notify"
           /\ log[r][Len(log[r])].path = "TaskResult"
           /\ log[r][Len(log[r])].val = payload[r].sha

C6_Witness ==
  \E r \in Slots :
    /\ data[r].round = 2
    /\ last_poll[r] = "false"
    /\ pc[r] = "done"
    /\ data[r].evaluation_url = "present"
    /\ payload[r].kind = "TaskResult"

(* C7: the convergence loop evaluates its predicate at most PollAttempts   *)
(* times.  While it runs every evaluation so far was false; it ends at the *)
(* first true evaluation, or after exactly PollAttempts false ones.        *)
C7_PollBound ==
  \A r \in Slots :
    /\ polls[r] <= PollAttempts
    /\ pc[r] = "poll" =>
         /\ polls[r] < PollAttempts
         /\ last_poll[r] = (IF polls[r] = 0 THEN "none" ELSE "false")
    /\ (pc[r] = "notify" /\ data[r].round \in {1, 2}) =>
         \/ last_poll[r] = "true" /\ polls[r] \in 1..PollAttempts
         \/ last_poll[r] = "false" /\ polls[r] = PollAttempts

C7_Witness ==
  \E r \in Slots :
    pc[r] = "notify" /\ last_poll[r] = "false" /\ polls[r] = PollAttempts

(* C8: push_code called again with a file list that a complete push_code   *)
(* has already written to the repository makes updates only: each of its   *)
(* writes carries a revision token, none is a create.                      *)
C8_RepushOnlyUpdates ==
  \A r \in Slots :
    repush[r] =>
      \A i \in DOMAIN log[r] : log[r][i].op = "write" => log[r][i].val # 0

InPush(r) == pc[r] \in {"probe", "write"}

(* C9: at most one push_code is in flight per repository name: no two      *)
(* requests are inside push_code on the same repository at once, a token   *)
(* a request holds between its probe and its write is still the file's     *)
(* current one, and no write is refused for a stale token.  (A file that   *)
(* was absent at the probe may exist at the write: create_repo of another  *)
(* request runs on a worker thread and adds the licence file.)             *)
C9_OneReconciliationPerRepo ==
  /\ \A r1, r2 \in Slots :
       (r1 # r2 /\ InPush(r1) /\ InPush(r2)) => Repo(r1) # Repo(r2)
  /\ \A r \in Slots :
       /\ pc[r] = "write" =>
            LET e == log[r][Len(log[r])]
            IN e.op = "probe" /\ (e.st = 200 =>
                 sha[r] = repos[Repo(r)].files[files[r][idx[r]]])
       /\ \A i \in DOMAIN log[r] : log[r][i].op = "write" => log[r][i].st # 409

C9_Witness ==
  \E r1, r2 \in Slots :
    /\ r1 # r2
    /\ Repo(r1) = Repo(r2)
    /\ pc[r1] = "write"
    /\ pc[r2] \in {"r1_gather", "r2_await"}
    /\ llmT[r2] = "done" /\ llmOut[r2] # <<>>
    /\ data[r2].round = 1 => crT[r2] = "done"

RepoCalls == {"create", "enable", "latest", "list", "read", "probe", "write"}
Count(r, op) == Cardinality({i \in DOMAIN log[r] : log[r][i].op = op})

C11_NotifyOnceNeverFatal ==
  \A r \in Slots :
    /\ Cardinality(NotifyEntries(r)) <= 1
    /\ \A i \in NotifyEntries(r) :
         /\ i = Len(log[r])
         /\ log[r][i].st \in {200, 0}
         /\ pc[r] = "done"
         /\ payload[r] # Raised
         /\ payload[r].kind = log[r][i].path
         /\ payload[r].sha = log[r][i].val
    /\ (pc[r] = "done" /\ data[r].evaluation_url = "present") =>
         Cardinality(NotifyEntries(r)) = 1

C11_Witness ==
  \E r \in Slots :
    /\ pc[r] = "done"
    /\ payload[r].kind = "TaskResult"
    /\ log[r] # <<>>
    /\ log[r][Len(log[r])].op = "notify" /\ log[r][Len(log[r])].st = 0

Writes(r) == SelectSeq(log[r], LAMBDA e : e.op = "write")

(* C12: a round 1 that returns a TaskResult for task t and nonce n, its    *)
(* generated files at distinct paths none of which was in the repository   *)
(* when push_code began, has called create_repo exactly once, for the name *)
(* t-n and answered 201; has written each generated file exactly once, in  *)
(* list order, every write without a token and answered 201 Created; has   *)
(* enabled hosting exactly once; and its repo_url names t-n.               *)
C12_Round1Scenario ==
  \A r \in Slots :
    (data[r].round = 1 /\ payload[r].kind = "TaskResult" /\ fresh[r]) =>
      LET name == <<data[r].task, "-", data[r].nonce>>
      IN /\ Count(r, "create") = 1
         /\ \A i \in DOMAIN log[r] :
              log[r][i].op = "create" => log[r][i].st = 201 /\ log[r][i].repo = name
         /\ Len(Writes(r)) = Len(files[r])
         /\ \A i \in DOMAIN files[r] :
              /\ Writes(r)[i].path = files[r][i]
              /\ Writes(r)[i].val = 0
              /\ Writes(r)[i].st = 201
              /\ Writes(r)[i].repo = name
         /\ Count(r, "enable") = 1
         /\ \A i \in DOMAIN log[r] :
              log[r][i].op = "enable" => log[r][i].st = 201 /\ log[r][i].repo = name
         /\ payload[r].repo = name

C12_Witness ==
  \E r \in Slots :
    /\ data[r].round = 1 /\ data[r].task = "demo" /\ data[r].nonce = "n1"
    /\ pc[r] = "done"
    /\ payload[r].kind = "TaskResult"
    /\ fresh[r]
    /\ Len(files[r]) >= 1
    /\ Count(r, "write") = Len(files[r])

(* C13: the repository name is task-nonce in every step of a request:      *)
(* every repository call it makes (create, list, read, probe, write,       *)
(* enable, latest), every convergence GET and the repo_url and pages_url   *)
(* of its result use that one name; so two requests with the same task and *)
(* nonce, whatever their rounds, work on the same repository, and a write  *)
(* that round 2 gets accepted is on the repository a create_repo made      *)
(* under that name.                                                        *)
C13_OneRepoName ==
  /\ \A r \in Slots :
       LET name == <<data[r].task, "-", data[r].nonce>>
       IN /\ \A i \in DOMAIN log[r] :
               log[r][i].op \in RepoCalls => log[r][i].repo = name
          /\ polled[r] # <<>> => polled[r] = name
          /\ payload[r].kind = "TaskResult" => payload[r].repo = name
          /\ \A i \in DOMAIN log[r] :
               (log[r][i].op = "write" /\ log[r][i].st \in {200, 201}) =>
                 repos[name].exists
  /\ \A r1, r2 \in Slots :
       (data[r1].task = data[r2].task /\ data[r1].nonce = data[r2].nonce) =>
         \A i \in DOMAIN log[r1], j \in DOMAIN log[r2] :
           (log[r1][i].op \in RepoCalls /\ log[r2][j].op \in RepoCalls) =>
             log[r1][i].repo = log[r2][j].repo

C13_Witness ==
  \E r1, r2 \in Slots :
    /\ r1 # r2
    /\ data[r1].round = 1 /\ data[r2].round = 2
    /\ data[r1].task = data[r2].task /\ data[r1].nonce = data[r2].nonce
    /\ \E i \in DOMAIN log[r1] : log[r1][i].op = "create" /\ log[r1][i].st = 201
    /\ \E j \in DOMAIN log[r2] : log[r2][j].op = "write" /\ log[r2][j].st = 201
    /\ polls[r2] > 0
    /\ payload[r2].kind = "TaskResult"

Contains(str, sub) ==
  \E i \in 1..(Len(str) - Len(sub) + 1) : SubSeq(str, i, i + Len(sub) - 1) = sub
END_MARKER == <<"<", "<", "E", ">", ">">>
NoEndMarker(f) == ~Contains(f.filename, END_MARKER) /\ ~Contains(f.content, END_MARKER)

Trimmed(str) == str # <<>> /\ Head(str) \notin WS /\ str[Len(str)] \notin WS
WellFormed(f) ==
  /\ Trimmed(f.filename)
  /\ ~Contains(f.filename, <<">">>)
  /\ Trimmed(f.content)
  /\ \A e \in DOMAIN f.content : ~EndAt(f.content, e)

(* C14 as stated: for every list of files whose paths and contents do not  *)
(* contain the literal <<END_FILE>>, parsing the context serialization of  *)
(* the list gives the list back.                                           *)
C14_RoundTripAnyFiles ==
  (stage = "context parsed" /\ \A i \in DOMAIN gen : NoEndMarker(gen[i])) => out = gen

(* C14 amended: for every list of files whose paths are non-empty, have no *)
(* white space at either end and contain no ">", and whose contents are    *)
(* non-empty, have no white space at either end and contain no line feed   *)
(* followed by <<END_FILE>> in any letter case, parsing the context        *)
(* serialization of the list gives the list back, same entries, same order.*)
C14_RoundTripWellFormed ==
  (stage = "context parsed" /\ \A i \in DOMAIN gen : WellFormed(gen[i])) => out = gen

C14_Witness ==
  /\ stage = "context parsed"
  /\ Len(gen) = 2 /\ gen[1] # gen[2]
  /\ \A i \in DOMAIN gen : WellFormed(gen[i])
  /\ Len(gen[2].content) = 2
  /\ out = gen

(* C15: for a text made of well-formed blocks with prose before, between   *)
(* and after them, extract_files_from_response returns exactly the blocks, *)
(* each with its own path and content and nothing of the prose; for a text *)
(* without blocks it returns the empty list.                               *)
C15_ParserRobustness ==
  (stage = "response parsed" /\ \A i \in DOMAIN gen : WellFormed(gen[i])) => out = gen

PushLog(r) == SelectSeq(log[r], LAMBDA e : e.op \in {"probe", "write"})

(* C16: push_code takes the files one after another in list order, with    *)
(* exactly one probe and then exactly one write for each; the write        *)
(* carries a token if and only if the file is in the repository when it is *)
(* probed, and the token is then the file's current one.                   *)
C16_ProbeThenWritePerFile ==
  /\ [](\A r \in Slots :
          \A i \in DOMAIN PushLog(r) :
            LET e == PushLog(r)[i]
            IN IF i % 2 = 1
               THEN e.op = "probe" /\ e.path = files[r][(i + 1) \div 2]
               ELSE /\ e.op = "write" /\ e.path = files[r][i \div 2]
                    /\ e.val = PushLog(r)[i - 1].val)
  /\ [][\A r \in Slots :
          (pc[r] = "probe" /\ pc'[r] = "write") =>
            sha'[r] = repos[Repo(r)].files[files[r][idx[r]]]]_vars

InCall(r) == pc[r] \in {"probe", "write", "enable", "latest", "poll", "notify"}

(* C17: while the handler of one request is in a network call or a poll    *)
(* sleep (a probe or write of push_code, enable_pages, the revision read,  *)
(* the convergence loop, the notification POST), the server can take       *)
(* another request and run its handler: with a free connection slot and    *)
(* a request waiting, Dispatch is enabled.                                 *)
C17_ResponsiveDuringCalls ==
  \A r \in Slots :
    (InCall(r) /\ arrivals < MaxArrivals /\ \E q \in Slots : pc[q] = "idle") =>
      ENABLED (\E q \in Slots : Dispatch(q))

Round1Empty(r) ==
  data[r].round = 1 /\ llmT[r] = "done" /\ llmOut[r] = <<>> /\ crT[r] = "done"

(* C18: in round 1, when llm_process returned no files (the service call   *)
(* failed and was caught, or its answer held no block) and create_repo     *)
(* succeeded, the handler is not aborted for that: it makes no probe and   *)
(* no write, goes on to enable_pages and get_sha_latest_commit and builds  *)
(* its TaskResult; it ends by an exception only if one of those calls is   *)
(* refused or a convergence GET raises.                                    *)
C18_Round1ToleratesEmpty ==
  \A r \in Slots :
    Round1Empty(r) =>
      /\ ~Has(r, {"probe", "write"})
      /\ pc[r] \in {"r1_gather", "enable", "latest", "poll", "notify", "done"}
      /\ pc[r] \in {"latest", "poll", "notify"} =>
           \E i \in DOMAIN log[r] : log[r][i].op = "enable" /\ log[r][i].st = 201
      /\ pc[r] \in {"poll", "notify"} =>
           /\ \E i \in DOMAIN log[r] : log[r][i].op = "latest" /\ log[r][i].st = 200
           /\ payload[r].kind = "TaskResult"
      /\ pc[r] = "done" =>
           \/ /\ payload[r].kind = "TaskResult"
              /\ Count(r, "enable") = 1 /\ Count(r, "latest") = 1
           \/ /\ payload[r] = Raised
              /\ \/ \E i \in DOMAIN log[r] :
                      log[r][i].op \in {"enable", "latest"} /\ Refused(log[r][i])
                 \/ last_poll[r] = "raised"

C18_Witness ==
  \E r \in Slots :
    /\ Round1Empty(r)
    /\ pc[r] = "done"
    /\ payload[r].kind = "TaskResult"
    /\ \E i \in DOMAIN log[r] : log[r][i].op = "llm" /\ log[r][i].st = 500
    /\ Count(r, "write") = 0

(* C19: in round 1 the steps come in the order push_code, enable_pages,    *)
(* get_sha_latest_commit, convergence loop, notification: enable_pages is  *)
(* called only after every file of push_code was written and accepted,     *)
(* the revision is read only after enable_pages answered 201, the          *)
(* convergence loop starts only after the revision was read, and the       *)
(* TaskResult is posted only after the loop has ended, by a true           *)
(* evaluation or by using up its attempts.                                 *)
C19_Round1StepOrder ==
  \A r \in Slots :
    (data[r].round = 1 /\ pc[r] # "orphan") =>
      /\ \A i \in DOMAIN log[r] :
           LET e == log[r][i]
               before == SubSeq(log[r], 1, i - 1)
               writes == SelectSeq(before, LAMBDA w : w.op = "write")
           IN /\ e.op = "enable" =>
                   /\ Len(writes) = Len(files[r])
                   /\ \A k \in DOMAIN writes :
                        writes[k].path = files[r][k] /\ writes[k].st \in {200, 201}
                   /\ \A j \in (i + 1)..Len(log[r]) : log[r][j].op \notin {"probe", "write"}
              /\ e.op = "latest" =>
                   \E j \in 1..(i - 1) : log[r][j].op = "enable" /\ log[r][j].st = 201
              /\ e.op = "notify" =>
                   /\ \E j \in 1..(i - 1) : log[r][j].op = "latest" /\ log[r][j].st = 200
                   /\ e.path = "TaskResult"
                   /\ last_poll[r] \in {"true", "false"}
      /\ polled[r] # <<>> =>
           \E j \in DOMAIN log[r] : log[r][j].op = "latest" /\ log[r][j].st = 200
      /\ pc[r] = "notify" =>
           \/ last_poll[r] = "true"
           \/ last_poll[r] = "false" /\ polls[r] = PollAttempts

C19_Witness ==
  \E r \in Slots :
    /\ data[r].round = 1
    /\ pc[r] = "done"
    /\ Len(files[r]) = 2
    /\ Count(r, "write") = 2
    /\ last_poll[r] = "false"
    /\ log[r][Len(log[r])].op = "notify"

FailedWrite(e) == e.op = "write" /\ e.st \notin {200, 201}

(* C20: push_code is not atomic and rolls nothing back.  When the write of *)
(* the k-th file is refused, the step that takes the refusal changes no    *)
(* repository; the k - 1 files written before, each by an accepted write,  *)
(* are in the repository; no probe or write is made for the files after    *)
(* the k-th; and the request ends by the exception, without a TaskResult.  *)
C20_PushNotAtomic ==
  /\ [](\A r \in Slots :
          \A i \in DOMAIN log[r] :
            FailedWrite(log[r][i]) =>
              /\ i = Len(log[r])
              /\ pc[r] = "done" /\ payload[r] = Raised
              /\ log[r][i].path = files[r][idx[r]]
              /\ Count(r, "write") = idx[r] /\ Count(r, "probe") = idx[r]
              /\ \A k \in 1..(idx[r] - 1) :
                   /\ repos[Repo(r)].files[files[r][k]] # 0
                   /\ Writes(r)[k].st \in {200, 201}
                   /\ Writes(r)[k].path = files[r][k])
  /\ [][\A r \in Slots :
          (pc[r] = "write" /\ pc'[r] = "done") => repos' = repos]_vars

C20_Witness ==
  \E r \in Slots :
    /\ pc[r] = "done"
    /\ payload[r] = Raised
    /\ Len(files[r]) = 2 /\ idx[r] = 2
    /\ files[r][1] = "index.html" /\ files[r][2] = "LICENSE"
    /\ FailedWrite(log[r][Len(log[r])])
    /\ Writes(r)[1].st = 201
    /\ repos[Repo(r)].files["index.html"] # 0

(* C21: when a GET of the convergence loop raises (connection error,       *)
(* timeout, a build-status body that is no JSON), the request ends there   *)
(* by the exception, its files already published: every file of push_code  *)
(* was written and accepted and the revision was read; no further GET of   *)
(* the loop is made, no TaskResult is returned and nothing is posted to    *)
(* evaluation_url.                                                         *)
C21_PollRaiseAborts ==
  /\ [](\A r \in Slots :
          last_poll[r] = "raised" =>
            /\ pc[r] = "done"
            /\ payload[r] = Raised
            /\ ~Has(r, {"notify"})
            /\ polls[r] \in 1..PollAttempts
            /\ Len(Writes(r)) = Len(files[r])
            /\ \A k \in DOMAIN files[r] : Writes(r)[k].st \in {200, 201}
            /\ log[r][Len(log[r])].op = "latest" /\ log[r][Len(log[r])].st = 200)
  /\ [][\A r \in Slots :
          (last_poll[r] = "raised" /\ last_poll'[r] = "raised") =>
            polls'[r] = polls[r] /\ log'[r] = log[r]]_vars

C21_Witness ==
  \E r \in Slots :
    /\ data[r].round = 2
    /\ last_poll[r] = "raised"
    /\ polls[r] = 3
    /\ pc[r] = "done"
    /\ \E i \in DOMAIN log[r] : log[r][i].op = "write" /\ log[r][i].st = 200

Round2Result(r) == data[r].round = 2 /\ payload[r].kind = "TaskResult"

(* C22: in a round 2 that returns a TaskResult the handler wrote at least  *)
(* one file, and commit_sha, the revision the convergence loop compares    *)
(* the build's commit with, is the revision its own last write made:       *)
(* whatever other requests on the same repository are in flight, none      *)
(* writes between that write and get_sha_latest_commit.                    *)
C22_Round2ShaIsOwnLastWrite ==
  \A r \in Slots :
    /\ Round2Result(r) =>
         /\ Len(Writes(r)) >= 1
         /\ payload[r].sha = Writes(r)[Len(Writes(r))].rev
         /\ \A i \in DOMAIN log[r] :
              log[r][i].op = "latest" =>
                /\ log[r][i].val = payload[r].sha
                /\ log[r][i - 1].op = "write"
    /\ (data[r].round = 2 /\ pc[r] = "latest") =>
         repos[Repo(r)].head = Writes(r)[Len(Writes(r))].rev

C22_Witness ==
  \E r1, r2 \in Slots :
    /\ r1 # r2 /\ Repo(r1) = Repo(r2)
    /\ Round2Result(r1) /\ pc[r1] = "poll"
    /\ data[r2].round = 1 /\ pc[r2] = "r1_gather"
    /\ llmT[r2] = "done" /\ crT[r2] = "done" /\ llmOut[r2] # <<>>
====
